---- MODULE Spec2Model ----
(***************************************************************************)
(* hotplot line chart: ChartBuilder -> Chart -> draw / update /            *)
(* mouse_interaction, modelled from src/src/chart/line.rs,                 *)
(* src/src/chart/line/data.rs and src/src/math.rs.                         *)
(*                                                                         *)
(* Conventions                                                             *)
(*   Option<T>      None is <<>>, Some(v) is <<v>>.                        *)
(*   axis values    integers; the axis type (XV) only decides whether      *)
(*                  distance_to asserts self <= other.  YV is i32.         *)
(*   f32            exact arithmetic; the canvas sizes of the model make   *)
(*                  every projected pixel coordinate a whole number, and   *)
(*                  distances are compared by their squares (exact         *)
(*                  rationals), so f32 rounding is not modelled.           *)
(*   HashMap        a function; its iteration order is an input of every   *)
(*                  operation that iterates it.                            *)
(*   panic          pc = "panicked", ret holds the panic message.          *)
(*                                                                         *)
(* Specifications                                                          *)
(*   Spec           the whole life of a chart, from ChartBuilder::new      *)
(*   SpecBuilder    the builder up to build()                              *)
(*   SpecCalc       calculate_min_max_values on a richer set of data       *)
(*   SpecCycle      draw / update / mouse_interaction on built Charts      *)
(*   SpecHit        redraws with a richer set of series and cursors        *)
(*   SpecAxis       the AxisValue methods called on their own              *)
(*   SpecMap        map_inverval_value in f32, called on its own           *)
(*   SpecAdd        AxisValue::add of the 8-bit integer types              *)
(*   SpecDist       point_to_interval_distance in f32, called on its own   *)
(*   SpecLoop       the label loop of an integer axis, step by step        *)
(***************************************************************************)
EXTENDS Integers, Sequences, FiniteSets, TLC

VARIABLES
    pc,       \* "builder": a ChartBuilder exists; "built": a Chart exists; "panicked";
              \* "axis", "math": an AxisValue method or map_inverval_value is
              \* about to be called; "returned"
    xKind,    \* the axis value type XV: "integer" (i32) or "time" (NaiveDateTime)
    builder,  \* Option<ChartBuilder>: None once build() consumed it
    chart,    \* Option<Chart>
    cache,    \* Chart.cache (iced canvas Cache): None = Empty, Some = Filled
    ret,      \* the last call and what it returned (or its panic message)
    hist      \* history of the render cycle: size of the last draw, cursor moved since

vars == <<pc, xKind, builder, chart, cache, ret, hist>>

-----------------------------------------------------------------------------
(* Bounds of the model *)

\* The axis values of the model are the low value 0 and the high value MaxVal.
MaxVal == 2

\* The longest custom label list the builder is driven to.
MaxLabels == 1

-----------------------------------------------------------------------------
(* Option *)

None == <<>>

Some(v) == <<v>>

IsSome(o) == o # <<>>

Unwrap(o) == o[1]

-----------------------------------------------------------------------------
(* Inputs *)

Values == {0, MaxVal}

\* A custom label: value strictly between the low and the high value, no text.
LabelChoices == {<<1, None>>}

XKinds == {"integer", "time"}

YKind == "integer"

PlotRed == [color |-> "red", line_selection_distance |-> 4]

PlotGreen == [color |-> "green", line_selection_distance |-> 4]

PlotSettingsChoices == {PlotRed, PlotGreen}

\* Series handed to data() and add_data(): empty, a rising line, a single point.
SeriesChoices ==
    { <<>>,
      << <<0, 0>>, <<MaxVal, MaxVal>> >>,
      << <<0, MaxVal>> >> }

DataChoices ==
    UNION { [ks -> SeriesChoices] : ks \in SUBSET PlotSettingsChoices }

\* The orders in which a HashMap with key set S can be iterated.
Orders(S) ==
    { o \in [1..Cardinality(S) -> S] :
        \A i, j \in 1..Cardinality(S) : i # j => o[i] # o[j] }

-----------------------------------------------------------------------------
(* AxisValue (data.rs) *)

AssertingKinds == {"integer", "float", "char", "bool"}

CompareValue(a, b) ==
    IF a < b THEN "Less" ELSE IF a = b THEN "Equal" ELSE "Greater"

\* distance_to panics iff the implementation asserts and self > other.
DistanceToPanics(kind, self, other) ==
    kind \in AssertingKinds /\ ~(self <= other)

\* NaiveTime, NaiveDateTime and DateTime<Tz> values have a finer resolution than
\* the millisecond their distances are counted in.  A value of the kind
\* "time_ticks" is such a value counted in ticks, TicksPerMs to a millisecond;
\* a value of the kind "time" is one at a whole millisecond, counted in
\* milliseconds; a value of the kind "date" is a NaiveDate counted in days.
TicksPerMs == 4

\* `as` from f32 to an integer type, and Duration::num_milliseconds, for the
\* fraction n / d with d > 0: rounded toward zero.
TruncDiv(n, d) == IF n >= 0 THEN n \div d ELSE 0 - ((0 - n) \div d)

\* The f32 returned, a whole number for every kind.
DistanceTo(kind, self, other) ==
    IF kind = "bool" THEN (IF self = other THEN 0 ELSE 1)
    ELSE IF kind = "time_ticks" THEN TruncDiv(other - self, TicksPerMs)
    ELSE other - self

-----------------------------------------------------------------------------
(* PlotSettings as a HashMap key *)

PlotSettingsEq(a, b) == a.color = b.color

Insert(map, k, v) ==
    IF \E k0 \in DOMAIN map : PlotSettingsEq(k0, k)
    THEN [k0 \in DOMAIN map |-> IF PlotSettingsEq(k0, k) THEN v ELSE map[k0]]
    ELSE [k0 \in (DOMAIN map) \cup {k} |-> IF k0 = k THEN v ELSE map[k0]]

-----------------------------------------------------------------------------
(* Iterators *)

RECURSIVE FlatValues(_, _, _)
\* data.iter().flat_map(|vec| vec.iter().map(|(xv, yv)| ..)) in iteration order;
\* axis 1 is x, axis 2 is y.
FlatValues(data, order, axis) ==
    IF order = <<>> THEN <<>>
    ELSE [i \in 1..Len(data[Head(order)]) |-> data[Head(order)][i][axis]]
         \o FlatValues(data, Tail(order), axis)

RECURSIVE MinByFold(_, _)
\* Iterator::min_by: of several equally small elements the first is kept.
MinByFold(acc, s) ==
    IF s = <<>> THEN acc
    ELSE MinByFold(IF CompareValue(acc, Head(s)) = "Greater" THEN Head(s) ELSE acc,
                   Tail(s))

MinBy(s) == MinByFold(Head(s), Tail(s))

RECURSIVE MaxByFold(_, _)
\* Iterator::max_by: of several equally large elements the last is kept.
MaxByFold(acc, s) ==
    IF s = <<>> THEN acc
    ELSE MaxByFold(IF CompareValue(acc, Head(s)) = "Greater" THEN acc ELSE Head(s),
                   Tail(s))

MaxBy(s) == MaxByFold(Head(s), Tail(s))

\* self.data.iter().any(|(_settings, vec)| !vec.is_empty())
AnyNonEmpty(data) == \E k \in DOMAIN data : data[k] # <<>>

-----------------------------------------------------------------------------
(* ChartBuilder *)

NewBuilder ==
    [ min_x_value_opt |-> None,
      max_x_value_opt |-> None,
      min_y_value_opt |-> None,
      max_y_value_opt |-> None,
      data            |-> <<>>,
      custom_x_labels |-> <<>>,
      custom_y_labels |-> <<>> ]

B == builder[1]

\* A builder method that returns Self (these calls are not told apart in ret).
ReturnsSelf(b) ==
    /\ pc' = "builder"
    /\ builder' = Some(b)
    /\ ret' = [call |-> "ChartBuilder", value |-> "Self"]
    /\ UNCHANGED <<xKind, chart, cache, hist>>

\* A panic unwinds out of the call; nothing is returned.  The other variables
\* keep the values the call was made with.
Panics(call, msg) ==
    /\ pc' = "panicked"
    /\ ret' = [call |-> call, value |-> msg]
    /\ UNCHANGED <<xKind, builder, chart, cache, hist>>

AssertAnyFailed == "assertion failed: self.data.iter().any(|(_settings, vec)| !vec.is_empty())"

AssertLeFailed == "assertion failed: *self <= *other"

Data(data) ==
    /\ pc = "builder"
    /\ ReturnsSelf([B EXCEPT !.data = data])

AddData(plot_settings, edges) ==
    /\ pc = "builder"
    /\ ReturnsSelf([B EXCEPT !.data = Insert(B.data, plot_settings, edges)])

CustomXLabels(custom_x_labels) ==
    /\ pc = "builder"
    /\ ReturnsSelf([B EXCEPT !.custom_x_labels = custom_x_labels])

AddCustomXLabel(value, text) ==
    /\ pc = "builder"
    /\ Len(B.custom_x_labels) < MaxLabels
    /\ ReturnsSelf([B EXCEPT !.custom_x_labels = Append(@, <<value, text>>)])

CustomYLabels(custom_y_labels) ==
    /\ pc = "builder"
    /\ ReturnsSelf([B EXCEPT !.custom_y_labels = custom_y_labels])

AddCustomYLabel(value, text) ==
    /\ pc = "builder"
    /\ Len(B.custom_y_labels) < MaxLabels
    /\ ReturnsSelf([B EXCEPT !.custom_y_labels = Append(@, <<value, text>>)])

MinXValue(min_x_value) ==
    /\ pc = "builder"
    /\ ReturnsSelf([B EXCEPT !.min_x_value_opt = Some(min_x_value)])

MaxXValue(max_x_value) ==
    /\ pc = "builder"
    /\ ReturnsSelf([B EXCEPT !.max_x_value_opt = Some(max_x_value)])

MinYValue(min_y_value) ==
    /\ pc = "builder"
    /\ ReturnsSelf([B EXCEPT !.min_y_value_opt = Some(min_y_value)])

MaxYValue(max_y_value) ==
    /\ pc = "builder"
    /\ ReturnsSelf([B EXCEPT !.max_y_value_opt = Some(max_y_value)])

\* calculate_min_x_value folding with max_by
CalcMinXByMax(b, order) ==
    [b EXCEPT !.min_x_value_opt = Some(MaxBy(FlatValues(b.data, order, 1)))]

\* The four calculate_* bodies after their assertion, on a builder value b
\* with at least one data point.
CalcMinX(b, order) ==
    [b EXCEPT !.min_x_value_opt = Some(MinBy(FlatValues(b.data, order, 1)))]

CalcMaxX(b, order) ==
    [b EXCEPT !.max_x_value_opt = Some(MaxBy(FlatValues(b.data, order, 1)))]

CalcMinY(b, order) ==
    [b EXCEPT !.min_y_value_opt = Some(MinBy(FlatValues(b.data, order, 2)))]

CalcMaxY(b, order) ==
    [b EXCEPT !.max_y_value_opt = Some(MaxBy(FlatValues(b.data, order, 2)))]

\* calculate_min_x_value falling back to a zero bound when there is no datum
CalculateMinXValueOrDefault(order) ==
    /\ pc = "builder"
    /\ IF ~AnyNonEmpty(B.data)
       THEN ReturnsSelf([B EXCEPT !.min_x_value_opt = Some(0)])
       ELSE ReturnsSelf(CalcMinX(B, order))

CalculateMinXValue(order) ==
    /\ pc = "builder"
    /\ IF ~AnyNonEmpty(B.data) THEN Panics("calculate_min_x_value", AssertAnyFailed)
       ELSE ReturnsSelf(CalcMinX(B, order))

CalculateMaxXValue(order) ==
    /\ pc = "builder"
    /\ IF ~AnyNonEmpty(B.data) THEN Panics("calculate_max_x_value", AssertAnyFailed)
       ELSE ReturnsSelf(CalcMaxX(B, order))

CalculateMinYValue(order) ==
    /\ pc = "builder"
    /\ IF ~AnyNonEmpty(B.data) THEN Panics("calculate_min_y_value", AssertAnyFailed)
       ELSE ReturnsSelf(CalcMinY(B, order))

CalculateMaxYValue(order) ==
    /\ pc = "builder"
    /\ IF ~AnyNonEmpty(B.data) THEN Panics("calculate_max_y_value", AssertAnyFailed)
       ELSE ReturnsSelf(CalcMaxY(B, order))

\* self.calculate_min_x_value().calculate_max_x_value(): the first call panics
\* on a builder without data points, and neither call changes the data (so
\* every call iterates the same, unmodified HashMap, in the same order).
CalculateMinMaxXValues(order) ==
    /\ pc = "builder"
    /\ IF ~AnyNonEmpty(B.data) THEN Panics("calculate_min_max_x_values", AssertAnyFailed)
       ELSE ReturnsSelf(CalcMaxX(CalcMinX(B, order), order))

CalculateMinMaxYValues(order) ==
    /\ pc = "builder"
    /\ IF ~AnyNonEmpty(B.data) THEN Panics("calculate_min_max_y_values", AssertAnyFailed)
       ELSE ReturnsSelf(CalcMaxY(CalcMinY(B, order), order))

CalculateMinMaxValues(order) ==
    /\ pc = "builder"
    /\ IF ~AnyNonEmpty(B.data) THEN Panics("calculate_min_max_values", AssertAnyFailed)
       ELSE ReturnsSelf(CalcMaxY(CalcMinY(CalcMaxX(CalcMinX(B, order), order),
                                          order), order))

-----------------------------------------------------------------------------
(* Chart::new and ChartBuilder::build *)

ChartNewPanics(kind, min_x_value, max_x_value, min_y_value, max_y_value) ==
    \/ DistanceToPanics(kind, min_x_value, max_x_value)
    \/ DistanceToPanics(YKind, min_y_value, max_y_value)

ChartNew(kind, min_x_value, max_x_value, min_y_value, max_y_value, data, custom_x_labels, custom_y_labels) ==
    [ min_x_value      |-> min_x_value,
      max_x_value      |-> max_x_value,
      total_x_distance |-> DistanceTo(kind, min_x_value, max_x_value),
      min_y_value      |-> min_y_value,
      max_y_value      |-> max_y_value,
      total_y_distance |-> DistanceTo(YKind, min_y_value, max_y_value),
      data             |-> data,
      custom_x_labels  |-> custom_x_labels,
      custom_y_labels  |-> custom_y_labels ]

\* build() returned a Chart: the builder is consumed, the cache starts Empty.
ReturnsChart(c) ==
    /\ pc' = "built"
    /\ builder' = None
    /\ chart' = Some(c)
    /\ cache' = None
    /\ ret' = [call |-> "build", value |-> "Chart"]
    /\ UNCHANGED <<xKind, hist>>

\* build() with unwrap_or_default() in place of the four assertions
BuildWithDefaults ==
    /\ pc = "builder"
    /\ LET OrDefault(o) == IF IsSome(o) THEN Unwrap(o) ELSE 0
       IN  IF ChartNewPanics(xKind, OrDefault(B.min_x_value_opt),
                             OrDefault(B.max_x_value_opt), OrDefault(B.min_y_value_opt),
                             OrDefault(B.max_y_value_opt))
           THEN Panics("build", AssertLeFailed)
           ELSE ReturnsChart(ChartNew(xKind, OrDefault(B.min_x_value_opt),
                                      OrDefault(B.max_x_value_opt),
                                      OrDefault(B.min_y_value_opt),
                                      OrDefault(B.max_y_value_opt),
                                      B.data, B.custom_x_labels, B.custom_y_labels))

Build ==
    /\ pc = "builder"
    /\ IF B.min_x_value_opt = None THEN Panics("build", "There is no min_x_value!")
       ELSE IF B.max_x_value_opt = None THEN Panics("build", "There is no max_x_value!")
       ELSE IF B.min_y_value_opt = None THEN Panics("build", "There is no min_y_value!")
       ELSE IF B.max_y_value_opt = None THEN Panics("build", "There is no max_y_value!")
       ELSE IF ChartNewPanics(xKind, Unwrap(B.min_x_value_opt), Unwrap(B.max_x_value_opt),
                              Unwrap(B.min_y_value_opt), Unwrap(B.max_y_value_opt))
       THEN Panics("build", AssertLeFailed)
       ELSE ReturnsChart(ChartNew(xKind,
                                  Unwrap(B.min_x_value_opt), Unwrap(B.max_x_value_opt),
                                  Unwrap(B.min_y_value_opt), Unwrap(B.max_y_value_opt),
                                  B.data, B.custom_x_labels, B.custom_y_labels))

-----------------------------------------------------------------------------
(* The builder's part of the next-state relation *)

LabelLists == {<<>>} \cup {<<l>> : l \in LabelChoices}

\* The key orders of the builder's data, for the operations that iterate it.
BuilderOrders == IF IsSome(builder) THEN Orders(DOMAIN B.data) ELSE {<<>>}

-----------------------------------------------------------------------------
(* Settings (data.rs): padding and margin are DistanceValue::Fixed *)

Padding == 60

Margin == 20

PointThreshold == 14

LineThreshold == 6

\* iced Rectangle and Size
Rect(x, y, width, height) == [x |-> x, y |-> y, width |-> width, height |-> height]

SizeOf(rect) == <<rect.width, rect.height>>

\* QuadDistance::transform with the same fixed distance on all four sides
Transform(quad, area) ==
    Rect(area.x + quad, area.y + quad, area.width - quad - quad, area.height - quad - quad)

MarginedArea(size) == Transform(Margin, Transform(Padding, Rect(0, 0, size[1], size[2])))

\* iced Cursor::position_in: the position relative to bounds, if the cursor is
\* available and over bounds.  No cursor of the model is on the edge of bounds.
PositionIn(cursor, bounds) ==
    IF /\ IsSome(cursor)
       /\ bounds.x <= Unwrap(cursor)[1] /\ Unwrap(cursor)[1] <= bounds.x + bounds.width
       /\ bounds.y <= Unwrap(cursor)[2] /\ Unwrap(cursor)[2] <= bounds.y + bounds.height
    THEN Some(<<Unwrap(cursor)[1] - bounds.x, Unwrap(cursor)[2] - bounds.y>>)
    ELSE None

MarginedCursorPosition(cursor, bounds) ==
    IF IsSome(PositionIn(cursor, bounds))
    THEN Some(<<Unwrap(PositionIn(cursor, bounds))[1] - MarginedArea(SizeOf(bounds)).x,
                Unwrap(PositionIn(cursor, bounds))[2] - MarginedArea(SizeOf(bounds)).y>>)
    ELSE None

-----------------------------------------------------------------------------
(* math.rs *)

\* f32 division; n / d with d # 0.  The sizes of the model keep it exact.
Div(n, d) == IF d > 0 THEN n \div d ELSE (0 - n) \div (0 - d)

MapIntervalValue(value, from, to) ==
    LET a1 == from[1]
        b1 == from[2]
        a2 == to[1]
        b2 == to[2]
    IN  IF a1 = b1
        THEN Div(b2 + a2, 2)
        ELSE Div((value - a1) * (b2 - a2), b1 - a1) + a2

\* f32 with its rounding.  A finite f32 is <<m, e>>, the number m * 2^e, with an
\* odd m of less than 2^24 in magnitude, and <<0, 0>> for zero.  The numbers of
\* the model are far from the ends of the exponent range.
F32Precision == 24

RECURSIVE Pow2(_)
Pow2(n) == IF n = 0 THEN 1 ELSE 2 * Pow2(n - 1)

Abs(n) == IF n < 0 THEN 0 - n ELSE n

RECURSIVE F32Strip(_, _)
F32Strip(m, e) ==
    IF m = 0 THEN <<0, 0>>
    ELSE IF m % 2 = 0 THEN F32Strip(m \div 2, e + 1)
    ELSE <<m, e>>

\* A whole number of less than 2^24 in magnitude, as the cast `as f32` gives it.
F32Of(n) == F32Strip(n, 0)

RECURSIVE ExcessBits(_)
\* The number of bits by which n >= 0 is longer than the significand.
ExcessBits(n) == IF n < Pow2(F32Precision) THEN 0 ELSE 1 + ExcessBits(n \div 2)

\* n / d for n >= 0 and d > 0, rounded to the nearest whole number, a tie to the
\* even one.
RoundHalfEven(n, d) ==
    LET q == n \div d
        r == n % d
    IN  IF 2 * r > d \/ (2 * r = d /\ q % 2 = 1) THEN q + 1 ELSE q

\* The f32 nearest to n * 2^e.
F32Round(n, e) ==
    LET k == ExcessBits(Abs(n))
        q == RoundHalfEven(Abs(n), Pow2(k))
    IN  F32Strip(IF n < 0 THEN 0 - q ELSE q, e + k)

F32Mul(a, b) == F32Round(a[1] * b[1], a[2] + b[2])

F32Add(a, b) ==
    LET e == IF a[2] < b[2] THEN a[2] ELSE b[2]
    IN  F32Round(a[1] * Pow2(a[2] - e) + b[1] * Pow2(b[2] - e), e)

F32Sub(a, b) == F32Add(a, <<0 - b[1], b[2]>>)

RECURSIVE DivShift(_, _, _)
\* The least s with n * 2^s / d >= 2^23, for n > 0 and d > 0.
DivShift(n, d, s) ==
    IF (n * Pow2(s)) \div d >= Pow2(F32Precision - 1) THEN s ELSE DivShift(n, d, s + 1)

\* a / b for b # 0.
F32Div(a, b) ==
    IF a[1] = 0 THEN <<0, 0>>
    ELSE LET n == Abs(a[1])
             d == Abs(b[1])
             s == DivShift(n, d, 0)
             q == RoundHalfEven(n * Pow2(s), d)
         IN  F32Strip(IF (a[1] < 0) = (b[1] < 0) THEN q ELSE 0 - q, a[2] - b[2] - s)

\* map_inverval_value on f32 values
MapIntervalValueF32(value, from, to) ==
    LET a1 == from[1]
        b1 == from[2]
        a2 == to[1]
        b2 == to[2]
    IN  IF a1 = b1
        THEN F32Div(F32Add(b2, a2), F32Of(2))
        ELSE F32Add(F32Div(F32Mul(F32Sub(value, a1), F32Sub(b2, a2)), F32Sub(b1, a1)), a2)

\* a <= b
F32Leq(a, b) ==
    LET e == IF a[2] < b[2] THEN a[2] ELSE b[2]
    IN  a[1] * Pow2(a[2] - e) <= b[1] * Pow2(b[2] - e)

RECURSIVE Gcd(_, _)
Gcd(m, n) == IF n = 0 THEN m ELSE Gcd(n, m % n)

\* A non-negative rational <<numerator, denominator>> in lowest terms.
Rat(num, den) == <<num \div Gcd(num, den), den \div Gcd(num, den)>>

RatLess(p, q) == p[1] * q[2] < q[1] * p[2]

RatLeq(p, q) == p[1] * q[2] <= q[1] * p[2]

\* The square of Point::distance.
Distance2(p, q) ==
    Rat((p[1] - q[1]) * (p[1] - q[1]) + (p[2] - q[2]) * (p[2] - q[2]), 1)

\* The square of point_to_interval_distance.  param = dot / len_sq (or -1), so
\* param < 0 iff len_sq = 0 or dot < 0, and param > 1 iff dot > len_sq;
\* otherwise dx = x - (x1 + param * c) = (a * len_sq - dot * c) / len_sq.
PointToIntervalDistance2(point, path_point1, path_point2) ==
    LET x  == point[1]
        y  == point[2]
        x1 == path_point1[1]
        y1 == path_point1[2]
        x2 == path_point2[1]
        y2 == path_point2[2]
        a  == x - x1
        b  == y - y1
        c  == x2 - x1
        d  == y2 - y1
        dot    == a * c + b * d
        len_sq == c * c + d * d
    IN  IF len_sq = 0 \/ dot < 0
        THEN Rat((x - x1) * (x - x1) + (y - y1) * (y - y1), 1)
        ELSE IF dot > len_sq
        THEN Rat((x - x2) * (x - x2) + (y - y2) * (y - y2), 1)
        ELSE LET dxn == a * len_sq - dot * c
                 dyn == b * len_sq - dot * d
             IN  Rat(dxn * dxn + dyn * dyn, len_sq * len_sq)

\* point_to_interval_distance on f32 values, up to its last line: the dx and dy
\* of which it returns (dx * dx + dy * dy).sqrt(), a value that is 0.0 iff dx
\* and dy both are (their squares are far from underflow).
PointToIntervalDistanceF32(point, path_point1, path_point2) ==
    LET x  == point[1]
        y  == point[2]
        x1 == path_point1[1]
        y1 == path_point1[2]
        x2 == path_point2[1]
        y2 == path_point2[2]
        a  == F32Sub(x, x1)
        b  == F32Sub(y, y1)
        c  == F32Sub(x2, x1)
        d  == F32Sub(y2, y1)
        dot    == F32Add(F32Mul(a, c), F32Mul(b, d))
        len_sq == F32Add(F32Mul(c, c), F32Mul(d, d))
        param  == IF len_sq # F32Of(0) THEN F32Div(dot, len_sq) ELSE F32Of(0 - 1)
        xx == IF param[1] < 0 THEN x1
              ELSE IF ~F32Leq(param, F32Of(1)) THEN x2
              ELSE F32Add(x1, F32Mul(param, c))
        yy == IF param[1] < 0 THEN y1
              ELSE IF ~F32Leq(param, F32Of(1)) THEN y2
              ELSE F32Add(y1, F32Mul(param, d))
    IN  [dx |-> F32Sub(x, xx), dy |-> F32Sub(y, yy)]

-----------------------------------------------------------------------------
(* Chart::points *)

C == chart[1]

PointsPanics(kind, c) ==
    \E k \in DOMAIN c.data : \E i \in 1..Len(c.data[k]) :
        \/ DistanceToPanics(kind, c.min_x_value, c.data[k][i][1])
        \/ DistanceToPanics(YKind, c.min_y_value, c.data[k][i][2])

\* The pixel Point of the datum (x, y) in an area of the given size.
Project(kind, c, size, x, y) ==
    LET width   == size[1]
        height  == size[2]
        x_coord == MapIntervalValue(DistanceTo(kind, c.min_x_value, x),
                                    <<0, c.total_x_distance>>, <<0, width>>)
        y_coord == MapIntervalValue(DistanceTo(YKind, c.min_y_value, y),
                                    <<0, c.total_y_distance>>, <<0, height>>)
    IN  <<x_coord, height - y_coord>>

\* HashMap<PlotSettings, Vec<(Point, XD, YD)>>
Points(kind, c, size) ==
    [k \in DOMAIN c.data |->
        [i \in 1..Len(c.data[k]) |->
            <<Project(kind, c, size, c.data[k][i][1], c.data[k][i][2]),
              c.data[k][i][1], c.data[k][i][2]>>]]

-----------------------------------------------------------------------------
(* Axis labels in Chart::draw *)

\* The Settings given to ChartBuilder::new are Settings::default() with the
\* two minimal label distances lowered to 10 px, so that the small canvases of
\* the model have room for labels.
MinXLabelDistance == 10

MinYLabelDistance == 10

\* A float as a fraction <<numerator, denominator>> with a positive denominator.
\* `as` to an integer type rounds toward zero.
Trunc(q) == IF q[1] >= 0 THEN q[1] \div q[2] ELSE 0 - ((0 - q[1]) \div q[2])

\* map_inverval_value(distance, (0, extent), (0, total)) for a pixel distance
\* given as a fraction and extent > 0.
MappedDistance(distance, extent, total) == <<distance[1] * total, distance[2] * extent>>

\* extent / (extent / min_label_distance).floor()
OptimalLabelDistance(extent, min_label_distance) ==
    <<extent, extent \div min_label_distance>>

Range(s) == {s[i] : i \in DOMAIN s}

GetValuesInBetweenPanics(kind, self, other) ==
    kind \in {"integer", "float"} /\ ~(self <= other)

RECURSIVE GetValuesInBetweenFrom(_, _, _, _, _, _)
\* The loop `for i in 1..` of get_values_in_between, from iteration i on.
GetValuesInBetweenFrom(kind, i, self, other, min_distance, optimal_distance) ==
    LET value == IF kind = "integer"
                 THEN Trunc(<<self * optimal_distance[2] + optimal_distance[1] * i,
                              optimal_distance[2]>>)
                 ELSE IF kind = "float"
                 THEN self + (optimal_distance[1] * i) \div optimal_distance[2]
                 ELSE IF kind = "time_ticks"
                 THEN self + TicksPerMs * Trunc(<<optimal_distance[1] * i,
                                                  optimal_distance[2]>>)
                 ELSE self + Trunc(<<optimal_distance[1] * i, optimal_distance[2]>>)
        fits  == IF kind \in {"integer", "float"}
                 THEN value * min_distance[2] + min_distance[1] < other * min_distance[2]
                 ELSE IF kind = "time_ticks"
                 THEN value + TicksPerMs * Trunc(min_distance) < other
                 ELSE value + Trunc(min_distance) < other
    IN  IF fits
        THEN <<value>> \o GetValuesInBetweenFrom(kind, i + 1, self, other,
                                                 min_distance, optimal_distance)
        ELSE <<>>

\* char and bool have no values in between.  A float value of the model is a
\* whole number and so is every optimal distance a float is called with, which
\* keeps self + i * optimal_distance whole and the f32 arithmetic exact.
GetValuesInBetween(kind, self, other, min_distance, optimal_distance) ==
    IF kind \in {"char", "bool"} THEN <<>>
    ELSE GetValuesInBetweenFrom(kind, 1, self, other, min_distance, optimal_distance)

\* The labels without the maximum appended when there is no value in between
AxisLabelsBare(kind, min_value, max_value, total_distance, extent, min_label_distance) ==
    LET between == GetValuesInBetween(kind, min_value, max_value,
                       MappedDistance(<<min_label_distance, 1>>, extent, total_distance),
                       MappedDistance(OptimalLabelDistance(extent, min_label_distance),
                                      extent, total_distance))
    IN  IF between = <<>> THEN <<min_value>> ELSE <<min_value>> \o between \o <<max_value>>

\* The values labelled along an axis: the minimum, the values in between, the
\* maximum.
AxisLabels(kind, min_value, max_value, total_distance, extent, min_label_distance) ==
    <<min_value>>
    \o GetValuesInBetween(kind, min_value, max_value,
                          MappedDistance(<<min_label_distance, 1>>, extent, total_distance),
                          MappedDistance(OptimalLabelDistance(extent, min_label_distance),
                                         extent, total_distance))
    \o <<max_value>>

\* The custom y labels drawn: strictly between the bounds and, mapped to
\* y = distance * height / total_y_distance, within [0, height].
CustomYLabelsDrawn(c, height) ==
    LET drawn == {i \in 1..Len(c.custom_y_labels) :
                    LET yv == c.custom_y_labels[i][1]
                    IN  /\ CompareValue(c.min_y_value, yv) = "Less"
                        /\ CompareValue(c.max_y_value, yv) = "Greater"
                        /\ 0 <= DistanceTo(YKind, c.min_y_value, yv) * height
                        /\ DistanceTo(YKind, c.min_y_value, yv) * height
                              <= height * c.total_y_distance}
    IN  [i \in drawn |-> c.custom_y_labels[i]]

\* The custom x labels drawn, by their indexes: the closure has no loop over
\* self.custom_x_labels, so none is.
CustomXLabelsDrawn(c, width) == [i \in {} |-> c.custom_x_labels[i]]

\* The assertions of the label part of the closure: those of
\* get_values_in_between and of the distance_to of every value labelled.
LabelsPanics(kind, c, size) ==
    \/ GetValuesInBetweenPanics(YKind, c.min_y_value, c.max_y_value)
    \/ \E yv \in Range(AxisLabels(YKind, c.min_y_value, c.max_y_value,
                                   c.total_y_distance, size[2], MinYLabelDistance)) :
          DistanceToPanics(YKind, c.min_y_value, yv)
    \/ GetValuesInBetweenPanics(kind, c.min_x_value, c.max_x_value)
    \/ \E xv \in Range(AxisLabels(kind, c.min_x_value, c.max_x_value,
                                   c.total_x_distance, size[1], MinXLabelDistance)) :
          DistanceToPanics(kind, c.min_x_value, xv)

-----------------------------------------------------------------------------
(* Hit-testing in Chart::draw *)

RECURSIVE MinByDistanceFold(_, _)
\* Iterator::min_by(|.., f1, .., f2| f1.total_cmp(f2)) over candidates with a
\* squared distance d: the first of several equally near candidates is kept.
MinByDistanceFold(acc, s) ==
    IF s = <<>> THEN acc
    ELSE MinByDistanceFold(IF RatLess(Head(s).d, acc.d) THEN Head(s) ELSE acc, Tail(s))

\* None for an empty iterator.
MinByDistance(s) == IF s = <<>> THEN None ELSE Some(MinByDistanceFold(Head(s), Tail(s)))

RECURSIVE FilterSeq(_, _)
\* Iterator::filter, with the kept elements given as a set of indexes.
FilterSeq(s, keep) ==
    IF s = <<>> THEN <<>>
    ELSE (IF Len(s) \in keep THEN FilterSeq(SubSeq(s, 1, Len(s) - 1), keep) \o <<s[Len(s)]>>
          ELSE FilterSeq(SubSeq(s, 1, Len(s) - 1), keep))

\* The point filter with `<` in place of `<=`
NearestPointOfStrict(vec, settings, cursor_position) ==
    LET mapped == [i \in 1..Len(vec) |->
                      [settings |-> settings, index |-> i,
                       d |-> Distance2(cursor_position, vec[i][1])]]
        keep   == {i \in 1..Len(vec) :
                      RatLess(mapped[i].d, Rat(PointThreshold * PointThreshold, 1))}
    IN  MinByDistance(FilterSeq(mapped, keep))

\* Per series: its point nearest to the cursor among those within 14 px.
NearestPointOf(vec, settings, cursor_position) ==
    LET mapped == [i \in 1..Len(vec) |->
                      [settings |-> settings, index |-> i,
                       d |-> Distance2(cursor_position, vec[i][1])]]
        keep   == {i \in 1..Len(vec) :
                      RatLeq(mapped[i].d, Rat(PointThreshold * PointThreshold, 1))}
    IN  MinByDistance(FilterSeq(mapped, keep))

RECURSIVE FilterMap(_, _)
\* Iterator::filter_map over Options, in order.
FilterMap(opts, n) ==
    IF n = 0 THEN <<>>
    ELSE FilterMap(opts, n - 1) \o (IF IsSome(opts[n]) THEN <<Unwrap(opts[n])>> ELSE <<>>)

\* selected_point_opt: Option<(settings, index of the tuple in its Vec)>
SelectedPointOpt(points, order, margined_cursor_position_opt) ==
    IF margined_cursor_position_opt = None THEN None
    ELSE LET per == [n \in 1..Len(order) |->
                        NearestPointOf(points[order[n]], order[n],
                                       Unwrap(margined_cursor_position_opt))]
             best == MinByDistance(FilterMap(per, Len(order)))
         IN  IF best = None THEN None
             ELSE Some(<<Unwrap(best).settings, Unwrap(best).index>>)

\* Per series: its segment nearest to the cursor among those within 6 px.
NearestSegmentOf(vec, settings, cursor_position) ==
    LET mapped == [i \in 1..(Len(vec) - 1) |->
                      [settings |-> settings, index |-> i,
                       d |-> PointToIntervalDistance2(cursor_position,
                                                      vec[i][1], vec[i + 1][1])]]
        keep   == {i \in 1..(Len(vec) - 1) :
                      RatLeq(mapped[i].d, Rat(LineThreshold * LineThreshold, 1))}
    IN  MinByDistance(FilterSeq(mapped, keep))

\* selected_plot_opt from the segments alone, whatever point is selected
SelectedPlotOptBySegments(points, order, margined_cursor_position_opt, selected_point_opt) ==
    IF margined_cursor_position_opt = None THEN None
    ELSE LET per == [n \in 1..Len(order) |->
                        NearestSegmentOf(points[order[n]], order[n],
                                         Unwrap(margined_cursor_position_opt))]
             best == MinByDistance(FilterMap(per, Len(order)))
         IN  IF best = None THEN None ELSE Some(Unwrap(best).settings)

\* selected_plot_opt: Option<settings>
SelectedPlotOpt(points, order, margined_cursor_position_opt, selected_point_opt) ==
    IF IsSome(selected_point_opt) THEN Some(Unwrap(selected_point_opt)[1])
    ELSE IF margined_cursor_position_opt = None THEN None
    ELSE LET per == [n \in 1..Len(order) |->
                        NearestSegmentOf(points[order[n]], order[n],
                                         Unwrap(margined_cursor_position_opt))]
             best == MinByDistance(FilterMap(per, Len(order)))
         IN  IF best = None THEN None ELSE Some(Unwrap(best).settings)

\* The widths and radii the closure draws the series with: per series the
\* width of its segments and the radius of each of its points.  A series is the
\* selected one if its key is the very key selected_plot_opt refers to; a point
\* is drawn with point_size3 if it is within 14 px of the cursor.
SeriesDrawn(points, margined_cursor_position_opt, selected_plot_opt) ==
    [k \in DOMAIN points |->
        LET line_selected == selected_plot_opt = Some(k)
            point_size    == IF line_selected THEN "point_size2" ELSE "point_size1"
        IN  [ line_size   |-> IF line_selected THEN "line_size2" ELSE "line_size1",
              point_sizes |->
                  [i \in 1..Len(points[k]) |->
                      LET selected ==
                              /\ IsSome(margined_cursor_position_opt)
                              /\ RatLeq(Distance2(Unwrap(margined_cursor_position_opt),
                                                  points[k][i][1]),
                                        Rat(PointThreshold * PointThreshold, 1))
                      IN  IF selected THEN "point_size3" ELSE point_size] ]]

\* What the draw closure puts into the frame: the selection it draws, together
\* with the bounds and the cursor the frame was drawn for.
Geometry(kind, c, bounds, cursor, order) ==
    LET area   == MarginedArea(SizeOf(bounds))
        points == Points(kind, c, SizeOf(area))
        mcur   == MarginedCursorPosition(cursor, bounds)
        sel    == SelectedPointOpt(points, order, mcur)
    IN  [ bounds         |-> bounds,
          cursor         |-> cursor,
          custom_x_labels |-> CustomXLabelsDrawn(c, area.width),
          custom_y_labels |-> CustomYLabelsDrawn(c, area.height),
          y_labels       |-> AxisLabels(YKind, c.min_y_value, c.max_y_value,
                                        c.total_y_distance, area.height,
                                        MinYLabelDistance),
          x_labels       |-> AxisLabels(kind, c.min_x_value, c.max_x_value,
                                        c.total_x_distance, area.width,
                                        MinXLabelDistance),
          selected_point |-> sel,
          selected_plot  |-> SelectedPlotOpt(points, order, mcur, sel),
          series         |-> SeriesDrawn(points, mcur,
                                         SelectedPlotOpt(points, order, mcur, sel)) ]

-----------------------------------------------------------------------------
(* Program<Message> for Chart: draw, update, mouse_interaction *)

\* A &self or &mut self method of the Chart returned.
Returns(call, value, newCache, newHist) ==
    /\ pc' = "built"
    /\ ret' = [call |-> call, value |-> value]
    /\ cache' = newCache
    /\ hist' = newHist
    /\ UNCHANGED <<xKind, builder, chart>>

\* iced Cache::draw(size, closure): a Filled cache of the same size is returned
\* as it is; otherwise the closure runs and its output fills the cache.
CacheHit(size) == IsSome(cache) /\ Unwrap(cache).bounds = size

Draw(bounds, cursor, order) ==
    /\ pc = "built"
    /\ IF CacheHit(SizeOf(bounds))
       THEN Returns("draw", "Geometry (cached)", cache,
                    [drawn |-> Some(SizeOf(bounds)), moved |-> FALSE])
       ELSE IF \/ LabelsPanics(xKind, C, SizeOf(MarginedArea(SizeOf(bounds))))
               \/ PointsPanics(xKind, C)
       THEN Panics("draw", AssertLeFailed)
       ELSE Returns("draw", "Geometry (drawn)",
                    Some([bounds   |-> SizeOf(bounds),
                          geometry |-> Geometry(xKind, C, bounds, cursor, order)]),
                    [drawn |-> Some(SizeOf(bounds)), moved |-> FALSE])

\* update clearing the cache only while the cursor is over the canvas
UpdateIfOver(event, bounds, cursor) ==
    /\ pc = "built"
    /\ IF event = "CursorMoved" /\ IsSome(PositionIn(cursor, bounds))
       THEN Returns("update", "Captured", None, [hist EXCEPT !.moved = TRUE])
       ELSE Returns("update", "Ignored", cache, hist)

\* update capturing the cursor-moved event without cache.clear()
UpdateKeepsCache(event, bounds, cursor) ==
    /\ pc = "built"
    /\ IF event = "CursorMoved"
       THEN Returns("update", "Captured", cache, [hist EXCEPT !.moved = TRUE])
       ELSE Returns("update", "Ignored", cache, hist)

\* update dropping the custom labels together with the cache
UpdateDropsLabels(event, bounds, cursor) ==
    /\ pc = "built"
    /\ IF event = "CursorMoved"
       THEN /\ pc' = "built"
            /\ ret' = [call |-> "update", value |-> "Captured"]
            /\ cache' = None
            /\ hist' = [hist EXCEPT !.moved = TRUE]
            /\ chart' = Some([C EXCEPT !.custom_x_labels = <<>>,
                                       !.custom_y_labels = <<>>])
            /\ UNCHANGED <<xKind, builder>>
       ELSE Returns("update", "Ignored", cache, hist)

Update(event, bounds, cursor) ==
    /\ pc = "built"
    /\ IF event = "CursorMoved"
       THEN Returns("update", "Captured", None, [hist EXCEPT !.moved = TRUE])
       ELSE Returns("update", "Ignored", cache, hist)

\* hovered: some segment within 6 px or one of its two end points within 14 px
Hovered(points, cursor_position) ==
    \E k \in DOMAIN points : \E i \in 1..(Len(points[k]) - 1) :
        \/ RatLeq(PointToIntervalDistance2(cursor_position,
                                           points[k][i][1], points[k][i + 1][1]),
                  Rat(LineThreshold * LineThreshold, 1))
        \/ RatLeq(Distance2(cursor_position, points[k][i][1]),
                  Rat(PointThreshold * PointThreshold, 1))
        \/ RatLeq(Distance2(cursor_position, points[k][i + 1][1]),
                  Rat(PointThreshold * PointThreshold, 1))

MouseInteraction(bounds, cursor) ==
    /\ pc = "built"
    /\ IF MarginedCursorPosition(cursor, bounds) = None
       THEN Returns("mouse_interaction", "Interaction::default()", cache, hist)
       ELSE IF PointsPanics(xKind, C)
       THEN Panics("mouse_interaction", AssertLeFailed)
       ELSE IF Hovered(Points(xKind, C, SizeOf(MarginedArea(SizeOf(bounds)))),
                       Unwrap(MarginedCursorPosition(cursor, bounds)))
       THEN Returns("mouse_interaction", "Interaction::Pointer", cache, hist)
       ELSE Returns("mouse_interaction", "Interaction::default()", cache, hist)

-----------------------------------------------------------------------------
(* The render cycle's part of the next-state relation *)

\* Canvas rectangles: margined areas of 20 x 20 and 20 x 40 pixels.
BoundsChoices == {Rect(0, 0, 180, 180), Rect(0, 0, 180, 200)}

\* Unavailable, over the margined area at (7, 7), beside the canvas.
CursorChoices == {None, Some(<<87, 87>>), Some(<<500, 500>>)}

Events == {"CursorMoved", "CursorLeft", "ButtonPressed", "KeyPressed"}

\* The key orders of the chart's points map.
ChartOrders == IF IsSome(chart) THEN Orders(DOMAIN C.data) ELSE {<<>>}

Init ==
    /\ pc = "builder"
    /\ xKind \in XKinds
    /\ builder = Some(NewBuilder)
    /\ chart = None
    /\ cache = None
    /\ ret = [call |-> "ChartBuilder", value |-> "Self"]
    /\ hist = [drawn |-> None, moved |-> FALSE]

Next ==
    \/ \E data \in DataChoices : Data(data)
    \/ \E ps \in PlotSettingsChoices, edges \in SeriesChoices : AddData(ps, edges)
    \/ \E ls \in LabelLists : CustomXLabels(ls)
    \/ \E l \in LabelChoices : AddCustomXLabel(l[1], l[2])
    \/ \E ls \in LabelLists : CustomYLabels(ls)
    \/ \E l \in LabelChoices : AddCustomYLabel(l[1], l[2])
    \/ \E v \in Values : MinXValue(v)
    \/ \E v \in Values : MaxXValue(v)
    \/ \E v \in Values : MinYValue(v)
    \/ \E v \in Values : MaxYValue(v)
    \/ \E o \in BuilderOrders : CalculateMinXValue(o)
    \/ \E o \in BuilderOrders : CalculateMaxXValue(o)
    \/ \E o \in BuilderOrders : CalculateMinYValue(o)
    \/ \E o \in BuilderOrders : CalculateMaxYValue(o)
    \/ \E o \in BuilderOrders : CalculateMinMaxXValues(o)
    \/ \E o \in BuilderOrders : CalculateMinMaxYValues(o)
    \/ \E o \in BuilderOrders : CalculateMinMaxValues(o)
    \/ Build
    \/ \E bounds \in BoundsChoices, cursor \in CursorChoices, o \in ChartOrders :
          Draw(bounds, cursor, o)
    \/ \E event \in Events, bounds \in BoundsChoices, cursor \in CursorChoices :
          Update(event, bounds, cursor)
    \/ \E bounds \in BoundsChoices, cursor \in CursorChoices :
          MouseInteraction(bounds, cursor)

Spec == Init /\ [][Next]_vars

-----------------------------------------------------------------------------
(* The builder alone, up to build() *)

NextBuilder ==
    \/ \E data \in DataChoices : Data(data)
    \/ \E ps \in PlotSettingsChoices, edges \in SeriesChoices : AddData(ps, edges)
    \/ \E ls \in LabelLists : CustomXLabels(ls)
    \/ \E l \in LabelChoices : AddCustomXLabel(l[1], l[2])
    \/ \E ls \in LabelLists : CustomYLabels(ls)
    \/ \E l \in LabelChoices : AddCustomYLabel(l[1], l[2])
    \/ \E v \in Values : MinXValue(v)
    \/ \E v \in Values : MaxXValue(v)
    \/ \E v \in Values : MinYValue(v)
    \/ \E v \in Values : MaxYValue(v)
    \/ \E o \in BuilderOrders : CalculateMinXValue(o)
    \/ \E o \in BuilderOrders : CalculateMaxXValue(o)
    \/ \E o \in BuilderOrders : CalculateMinYValue(o)
    \/ \E o \in BuilderOrders : CalculateMaxYValue(o)
    \/ \E o \in BuilderOrders : CalculateMinMaxXValues(o)
    \/ \E o \in BuilderOrders : CalculateMinMaxYValues(o)
    \/ \E o \in BuilderOrders : CalculateMinMaxValues(o)
    \/ Build

SpecBuilder == Init /\ [][NextBuilder]_vars

-----------------------------------------------------------------------------
(* The render cycle alone, on any Chart that Chart::new returns *)

\* The bounds of an axis: the whole range of the data, or its upper end only.
CycleBoundsChoices == {<<0, MaxVal>>, <<MaxVal, MaxVal>>}

InitCycle ==
    /\ pc = "built"
    /\ xKind \in XKinds
    /\ builder = None
    /\ \E xb \in CycleBoundsChoices, yb \in CycleBoundsChoices,
          data \in DataChoices, ls \in LabelLists :
          /\ ~ChartNewPanics(xKind, xb[1], xb[2], yb[1], yb[2])
          /\ chart = Some(ChartNew(xKind, xb[1], xb[2], yb[1], yb[2], data, ls, ls))
    /\ cache = None
    /\ ret = [call |-> "build", value |-> "Chart"]
    /\ hist = [drawn |-> None, moved |-> FALSE]

NextCycle ==
    \/ \E bounds \in BoundsChoices, cursor \in CursorChoices, o \in ChartOrders :
          Draw(bounds, cursor, o)
    \/ \E event \in Events, bounds \in BoundsChoices, cursor \in CursorChoices :
          Update(event, bounds, cursor)
    \/ \E bounds \in BoundsChoices, cursor \in CursorChoices :
          MouseInteraction(bounds, cursor)

SpecCycle == InitCycle /\ [][NextCycle]_vars

-----------------------------------------------------------------------------
(* calculate_min_max_values on builders holding any of a richer set of data *)

CalcSeriesChoices ==
    { <<>>,
      <<<<MaxVal - 1, MaxVal - 1>>>>,
      <<<<0, MaxVal>>, <<MaxVal, 0>>>>,
      <<<<MaxVal, MaxVal - 1>>>>,
      <<<<MaxVal - 1, 0>>, <<0, MaxVal - 1>>>> }

CalcDataChoices ==
    UNION {[ks -> CalcSeriesChoices] : ks \in SUBSET PlotSettingsChoices}

\* The state after ChartBuilder::new(settings).data(data)
InitCalc ==
    /\ pc = "builder"
    /\ xKind \in XKinds
    /\ builder \in {Some([NewBuilder EXCEPT !.data = data]) : data \in CalcDataChoices}
    /\ chart = None
    /\ cache = None
    /\ ret = [call |-> "ChartBuilder", value |-> "Self"]
    /\ hist = [drawn |-> None, moved |-> FALSE]

NextCalc == \E o \in BuilderOrders : CalculateMinMaxValues(o)

SpecCalc == InitCalc /\ [][NextCalc]_vars

-----------------------------------------------------------------------------
(* Redraws of any Chart that Chart::new returns for a richer set of series *)

HitSeriesChoices ==
    { <<>>,
      <<<<0, 0>>, <<MaxVal, MaxVal>>>>,
      <<<<0, MaxVal>>, <<MaxVal, 0>>>>,
      <<<<0, MaxVal>>>>,
      <<<<0, 0>>, <<0, MaxVal>>>> }

HitDataChoices ==
    UNION {[ks -> HitSeriesChoices] : ks \in SUBSET PlotSettingsChoices}

\* Unavailable; beside the canvas; over the margined area at (7, 7), (4, 7),
\* (14, 0), (15, 0), (6, 20) and (7, 20).
HitCursorChoices ==
    { None, Some(<<500, 500>>), Some(<<87, 87>>), Some(<<84, 87>>),
      Some(<<94, 80>>), Some(<<95, 80>>), Some(<<86, 100>>), Some(<<87, 100>>) }

InitHit ==
    /\ pc = "built"
    /\ xKind \in XKinds
    /\ builder = None
    /\ \E xb \in CycleBoundsChoices, yb \in CycleBoundsChoices, data \in HitDataChoices :
          /\ ~ChartNewPanics(xKind, xb[1], xb[2], yb[1], yb[2])
          /\ chart = Some(ChartNew(xKind, xb[1], xb[2], yb[1], yb[2],
                                   data, <<>>, <<>>))
    /\ cache = None
    /\ ret = [call |-> "build", value |-> "Chart"]
    /\ hist = [drawn |-> None, moved |-> FALSE]

NextHit ==
    \/ \E bounds \in BoundsChoices, cursor \in HitCursorChoices, o \in ChartOrders :
          Draw(bounds, cursor, o)
    \/ \E bounds \in BoundsChoices, cursor \in HitCursorChoices :
          Update("CursorMoved", bounds, cursor)

SpecHit == InitHit /\ [][NextHit]_vars

-----------------------------------------------------------------------------
(* The AxisValue methods called on their own *)

\* The values of an axis type run from 0 to MaxAxis units.
MaxAxis == 4

AxisKinds == {"integer", "float", "char", "bool", "time", "time_ticks", "date"}

AxisValues(kind) ==
    IF kind = "bool" THEN 0..1
    ELSE IF kind = "time_ticks" THEN 0..(MaxAxis * TicksPerMs)
    ELSE 0..MaxAxis

\* The f32 distances 0.5, 1, 1.5 and 2 as fractions; whole ones for a float.
DistanceChoices(kind) ==
    IF kind = "float" THEN {<<1, 1>>, <<2, 1>>}
    ELSE {<<1, 2>>, <<1, 1>>, <<3, 2>>, <<2, 1>>}

AxisArgs(kind) ==
    [self : AxisValues(kind), other : AxisValues(kind),
     min_distance : DistanceChoices(kind), optimal_distance : DistanceChoices(kind)]

\* The arguments of the call to come.
InitAxis ==
    /\ pc = "axis"
    /\ xKind \in AxisKinds
    /\ builder = None
    /\ chart = None
    /\ cache = None
    /\ ret \in {[call |-> "AxisValue", value |-> a] : a \in AxisArgs(xKind)}
    /\ hist = [drawn |-> None, moved |-> FALSE]

\* The call has returned result, or has panicked with it as its message.
AxisCallEnds(to, call, result) ==
    /\ pc' = to
    /\ ret' = [call |-> call, value |-> [args |-> ret.value, result |-> result]]
    /\ UNCHANGED <<xKind, builder, chart, cache, hist>>

\* self.distance_to(&other)
DistanceToCall ==
    /\ pc = "axis"
    /\ IF DistanceToPanics(xKind, ret.value.self, ret.value.other)
       THEN AxisCallEnds("panicked", "distance_to", AssertLeFailed)
       ELSE AxisCallEnds("returned", "distance_to",
                         DistanceTo(xKind, ret.value.self, ret.value.other))

\* self.get_values_in_between(&other, min_distance, optimal_distance)
GetValuesInBetweenCall ==
    /\ pc = "axis"
    /\ IF GetValuesInBetweenPanics(xKind, ret.value.self, ret.value.other)
       THEN AxisCallEnds("panicked", "get_values_in_between", AssertLeFailed)
       ELSE AxisCallEnds("returned", "get_values_in_between",
                         GetValuesInBetween(xKind, ret.value.self, ret.value.other,
                                            ret.value.min_distance,
                                            ret.value.optimal_distance))

NextAxis ==
    \/ DistanceToCall
    \/ GetValuesInBetweenCall

SpecAxis == InitAxis /\ [][NextAxis]_vars

-----------------------------------------------------------------------------
(* The projection of a distance along an axis onto the margined area *)

\* The total distance of an axis runs up to MaxTotal units.
MaxTotal == 6

\* The margined widths or heights run from 400.0 px in tenths of a pixel.
MaxTenths == 9

CanvasExtents == {F32Div(F32Of(4000 + k), F32Of(10)) : k \in 0..MaxTenths}

\* value in [a1, b1], from = (a1, b1) with a1 < b1 and to = (a2, b2) with
\* a2 < b2.  Chart::points gives the distance of a datum from the axis
\* minimum, (0.0, total distance) and (0.0, margined width or height).
ProjectionArgs ==
    UNION {{[value |-> F32Of(d), from |-> <<F32Of(a1), F32Of(t)>>, to |-> <<F32Of(a2), w>>] :
               d \in a1..t, a2 \in 0..1, w \in CanvasExtents} :
           <<a1, t>> \in {x \in (0..1) \X (1..MaxTotal) : x[1] < x[2]}}

InitMap ==
    /\ pc = "math"
    /\ xKind = "integer"
    /\ builder = None
    /\ chart = None
    /\ cache = None
    /\ ret \in {[call |-> "math", value |-> a] : a \in ProjectionArgs}
    /\ hist = [drawn |-> None, moved |-> FALSE]

\* crate::math::map_inverval_value(value, from, to)
MapIntervalValueCall ==
    /\ pc = "math"
    /\ pc' = "returned"
    /\ ret' = [call  |-> "map_inverval_value",
               value |-> [args   |-> ret.value,
                          result |-> MapIntervalValueF32(ret.value.value, ret.value.from,
                                                         ret.value.to)]]
    /\ UNCHANGED <<xKind, builder, chart, cache, hist>>

NextMap == MapIntervalValueCall

SpecMap == InitMap /\ [][NextMap]_vars

-----------------------------------------------------------------------------
(* AxisValue::add of the integer types u8 and i8 *)

\* The width of the integer types.
IntBits == 8

\* The f32 deltas are the whole numbers up to MaxDelta.
MaxDelta == 300

IntTypes == {"unsigned", "signed"}

IntMin(type) == IF type = "signed" THEN 0 - Pow2(IntBits - 1) ELSE 0

IntMax(type) == IF type = "signed" THEN Pow2(IntBits - 1) - 1 ELSE Pow2(IntBits) - 1

\* `value as $x` for a whole f32: out of range values saturate.
AsInt(type, value) ==
    IF value > IntMax(type) THEN IntMax(type)
    ELSE IF value < IntMin(type) THEN IntMin(type)
    ELSE value

\* self.checked_add(value as $x)
Add(type, self, value) ==
    IF self + AsInt(type, value) > IntMax(type) \/ self + AsInt(type, value) < IntMin(type)
    THEN None
    ELSE Some(self + AsInt(type, value))

InitAdd ==
    /\ pc = "axis"
    /\ xKind \in IntTypes
    /\ builder = None
    /\ chart = None
    /\ cache = None
    /\ ret \in {[call |-> "AxisValue", value |-> [self |-> v, value |-> d]] :
                   v \in IntMin(xKind)..IntMax(xKind), d \in 0..MaxDelta}
    /\ hist = [drawn |-> None, moved |-> FALSE]

\* self.add(value)
AddCall ==
    /\ pc = "axis"
    /\ AxisCallEnds("returned", "add", Add(xKind, ret.value.self, ret.value.value))

NextAdd == AddCall

SpecAdd == InitAdd /\ [][NextAdd]_vars

-----------------------------------------------------------------------------
(* point_to_interval_distance in f32, called on its own *)

\* The segments start at (0, 0) and end at (c, d) with c up to MaxSeg and d up
\* to 1; the points are at x = 0.0, 0.1, .. in tenths of a pixel up to
\* MaxSeg + 1, and at y = 0 or 1.
MaxSeg == 3

SegmentArgs ==
    [point       : {<<F32Div(F32Of(k), F32Of(10)), F32Of(y)>> :
                       k \in 0..(10 * (MaxSeg + 1)), y \in 0..1},
     path_point1 : {<<F32Of(0), F32Of(0)>>},
     path_point2 : {<<F32Of(c), F32Of(d)>> : c \in 0..MaxSeg, d \in 0..1}]

InitDist ==
    /\ pc = "math"
    /\ xKind = "integer"
    /\ builder = None
    /\ chart = None
    /\ cache = None
    /\ ret \in {[call |-> "math", value |-> a] : a \in SegmentArgs}
    /\ hist = [drawn |-> None, moved |-> FALSE]

\* crate::math::point_to_interval_distance(point, path_point1, path_point2)
PointToIntervalDistanceCall ==
    /\ pc = "math"
    /\ AxisCallEnds("returned", "point_to_interval_distance",
                    PointToIntervalDistanceF32(ret.value.point, ret.value.path_point1,
                                               ret.value.path_point2))

NextDist == PointToIntervalDistanceCall

SpecDist == InitDist /\ [][NextDist]_vars

-----------------------------------------------------------------------------
(* The loop of the integer get_values_in_between, iteration by iteration, *)
(* called as draw calls it                                                  *)

\* The loop counter of `for i in 1..` is an i32; the counter of the model
\* overflows after MaxIter.
MaxIter == 16

\* Margined extents in px, and the minimal label distances in px: 10, and the
\* 50 of Settings::default().
LoopExtents == {20, 40, 120}

LoopLabelDistances == {10, 50}

\* Axis bounds of the i8 axis.
LoopValues == {0, 3, IntMax("signed")}

\* min_label_distance_mapped and optimal_label_distance_mapped of draw.  The
\* optimal distance in px is extent / (extent / min_label_distance).floor(); a
\* floor of 0 makes it inf, the fraction <<extent, 0>>.  Mapped by * total /
\* extent it stays inf (<<n, 0>> with n > 0), and is NaN (<<0, 0>>) for a total
\* distance of 0.
LabelDistances(extent, min_label_distance, total) ==
    [min_distance     |-> MappedDistance(<<min_label_distance, 1>>, extent, total),
     optimal_distance |-> MappedDistance(OptimalLabelDistance(extent, min_label_distance),
                                         extent, total)]

LoopArgs ==
    UNION {{[self |-> self, other |-> other, i |-> 1, result |-> <<>>,
             min_distance |-> LabelDistances(e, d, other - self).min_distance,
             optimal_distance |-> LabelDistances(e, d, other - self).optimal_distance] :
               e \in LoopExtents, d \in LoopLabelDistances} :
           <<self, other>> \in {v \in LoopValues \X LoopValues : v[1] <= v[2]}}

InitLoop ==
    /\ pc = "loop"
    /\ xKind = "signed"
    /\ builder = None
    /\ chart = None
    /\ cache = None
    /\ ret \in {[call |-> "get_values_in_between", value |-> a] : a \in LoopArgs}
    /\ hist = [drawn |-> None, moved |-> FALSE]

\* (*self as f32 + optimal_distance * i as f32) as $x: NaN is cast to 0, inf to
\* the greatest value of the type.
LoopValue(s) ==
    IF s.optimal_distance = <<0, 0>> THEN 0
    ELSE IF s.optimal_distance[2] = 0 THEN IntMax(xKind)
    ELSE AsInt(xKind, Trunc(<<s.self * s.optimal_distance[2] + s.optimal_distance[1] * s.i,
                              s.optimal_distance[2]>>))

\* value as f32 + min_distance < *other as f32
LoopFits(s) ==
    LoopValue(s) * s.min_distance[2] + s.min_distance[1] < s.other * s.min_distance[2]

LoopEnds(to, value) ==
    /\ pc' = to
    /\ ret' = [ret EXCEPT !.value = value]
    /\ UNCHANGED <<xKind, builder, chart, cache, hist>>

\* result.push(value), and the next i
LoopPush ==
    /\ pc = "loop"
    /\ LoopFits(ret.value)
    /\ ret.value.i < MaxIter
    /\ LoopEnds("loop", [ret.value EXCEPT !.i = @ + 1,
                                          !.result = Append(@, LoopValue(ret.value))])

\* break, and the result returned
LoopBreak ==
    /\ pc = "loop"
    /\ ~LoopFits(ret.value)
    /\ LoopEnds("returned", ret.value)

\* result.push(value) with the counter at its greatest value: the next i
\* overflows.  A build with overflow checks panics; one without lets i wrap and
\* the loop run on, until the Vec cannot grow any more.
LoopOverflow ==
    /\ pc = "loop"
    /\ LoopFits(ret.value)
    /\ ret.value.i = MaxIter
    /\ \E msg \in {"attempt to add with overflow", "memory allocation failed"} :
          LoopEnds("panicked", msg)

NextLoop ==
    \/ LoopPush
    \/ LoopBreak
    \/ LoopOverflow

SpecLoop == InitLoop /\ [][NextLoop]_vars

-----------------------------------------------------------------------------
(* Properties of the builder *)

BoundOpts(b) ==
    <<b.min_x_value_opt, b.max_x_value_opt, b.min_y_value_opt, b.max_y_value_opt>>

AllBoundsPresent(b) == \A n \in 1..4 : IsSome(BoundOpts(b)[n])

\* A step that adds series or custom labels.
SeriesOrLabelsStep ==
    \/ \E data \in DataChoices : Data(data)
    \/ \E ps \in PlotSettingsChoices, edges \in SeriesChoices : AddData(ps, edges)
    \/ \E ls \in LabelLists : CustomXLabels(ls) \/ CustomYLabels(ls)
    \/ \E l \in LabelChoices : AddCustomXLabel(l[1], l[2]) \/ AddCustomYLabel(l[1], l[2])

\* C1: build() fails with a checked failure, and returns no Chart, whenever one
\* of the four bounds is not present, whatever series and labels the builder
\* holds; and a step that adds series or custom labels leaves every one of the
\* four bounds as it was, so only a setter or a calculate_* makes a bound present.
C1_BuildNeedsAllBounds ==
    [][ /\ (Build /\ ~AllBoundsPresent(B))
            => (pc' = "panicked" /\ ret'.call = "build" /\ chart' = None)
        /\ SeriesOrLabelsStep => BoundOpts(builder'[1]) = BoundOpts(B) ]_vars

\* build() has failed for the one bound missing, on a builder that holds a
\* datum, custom labels and the three other bounds.
C1_Witness ==
    /\ pc = "panicked"
    /\ ret = [call |-> "build", value |-> "There is no max_y_value!"]
    /\ AnyNonEmpty(B.data)
    /\ B.custom_x_labels # <<>>
    /\ B.custom_y_labels # <<>>

\* One of the four single calculate_* operations.
CalculateStep ==
    \E o \in BuilderOrders :
        \/ CalculateMinXValue(o)
        \/ CalculateMaxXValue(o)
        \/ CalculateMinYValue(o)
        \/ CalculateMaxYValue(o)

\* C2: each of calculate_min_x_value, calculate_max_x_value,
\* calculate_min_y_value and calculate_max_y_value, called on a builder with no
\* datum in any series, fails on its assertion and sets no bound.
C2_CalculateFailsWithoutData ==
    [][ (pc = "builder" /\ ~AnyNonEmpty(B.data) /\ CalculateStep)
            => /\ pc' = "panicked"
               /\ ret'.value = AssertAnyFailed
               /\ builder' = builder ]_vars

\* calculate_min_x_value has failed on a builder that holds series, all empty.
C2_Witness ==
    /\ pc = "panicked"
    /\ ret = [call |-> "calculate_min_x_value", value |-> AssertAnyFailed]
    /\ DOMAIN B.data # {}
    /\ ~AnyNonEmpty(B.data)
    /\ B.min_x_value_opt = None

\* The x (axis = 1) or y (axis = 2) values of all the data of all the series.
AllValues(data, axis) ==
    UNION {{data[k][i][axis] : i \in 1..Len(data[k])} : k \in DOMAIN data}

IsMinOf(opt, values) ==
    IsSome(opt) /\ Unwrap(opt) \in values /\ \A v \in values : Unwrap(opt) <= v

IsMaxOf(opt, values) ==
    IsSome(opt) /\ Unwrap(opt) \in values /\ \A v \in values : Unwrap(opt) >= v

TrueExtremes(b) ==
    /\ IsMinOf(b.min_x_value_opt, AllValues(b.data, 1))
    /\ IsMaxOf(b.max_x_value_opt, AllValues(b.data, 1))
    /\ IsMinOf(b.min_y_value_opt, AllValues(b.data, 2))
    /\ IsMaxOf(b.max_y_value_opt, AllValues(b.data, 2))

\* C3: on a builder with a datum, calculate_min_max_values, whatever the order
\* in which it iterates the series, returns the builder with each bound a value
\* of some datum that is <= (min) or >= (max) the value of every datum.
C3_CalculatedBoundsAreExtremes ==
    [][ \A o \in BuilderOrders :
            (CalculateMinMaxValues(o) /\ AnyNonEmpty(B.data))
                => (pc' = "builder" /\ TrueExtremes(builder'[1])) ]_vars

\* Two non-empty series, the least x in one of them only and the greatest x
\* in the other only, and all four bounds calculated.
C3_Witness ==
    /\ pc = "builder"
    /\ AllBoundsPresent(B)
    /\ \E k1 \in DOMAIN B.data, k2 \in DOMAIN B.data :
          /\ k1 # k2
          /\ \E i \in 1..Len(B.data[k1]) :
                B.data[k1][i][1] = Unwrap(B.min_x_value_opt)
          /\ \A i \in 1..Len(B.data[k2]) :
                B.data[k2][i][1] > Unwrap(B.min_x_value_opt)
          /\ \E i \in 1..Len(B.data[k2]) :
                B.data[k2][i][1] = Unwrap(B.max_x_value_opt)
          /\ \A i \in 1..Len(B.data[k1]) :
                B.data[k1][i][1] < Unwrap(B.max_x_value_opt)

\* C4: every Chart that build() has returned has min_x <= max_x and
\* min_y <= max_y.
C4_BuiltBoundsOrdered ==
    IsSome(chart) => /\ C.min_x_value <= C.max_x_value
                     /\ C.min_y_value <= C.max_y_value

\* C5: once build() has returned a Chart, no call on it fails.
C5_NoFailureAfterBuild == IsSome(chart) => pc # "panicked"

-----------------------------------------------------------------------------
(* Properties of the render cycle *)

\* C6: update, for a cursor-moved event, with any bounds and any cursor, leaves
\* the cache Empty and returns Captured; for any other event it returns
\* Ignored and leaves the cache as it was.
C6_UpdateClearsOnCursorMoved ==
    [][ ret'.call = "update" =>
          \A event \in Events, bounds \in BoundsChoices, cursor \in CursorChoices :
            Update(event, bounds, cursor)
                => IF event = "CursorMoved"
                   THEN cache' = None /\ ret' = [call |-> "update", value |-> "Captured"]
                   ELSE cache' = cache /\ ret' = [call |-> "update", value |-> "Ignored"]
      ]_vars

\* A cursor-moved event has emptied a cache that a draw had filled.
C6_Witness ==
    /\ pc = "built"
    /\ ret = [call |-> "update", value |-> "Captured"]
    /\ IsSome(hist.drawn)
    /\ hist.moved
    /\ cache = None

\* C7: a draw that returns, called after a cursor-moved event with no draw in
\* between, runs the closure; a draw of the size of the previous draw, with no
\* cursor-moved event in between, returns the cached geometry without running
\* the closure.
C7_RedrawAfterCursorMoved ==
    [][ (pc' = "built" /\ ret'.call = "draw") =>
          \A bounds \in BoundsChoices, cursor \in CursorChoices, o \in ChartOrders :
            (hist'.drawn = Some(SizeOf(bounds)) /\ Draw(bounds, cursor, o))
                => /\ hist.moved => ret'.value = "Geometry (drawn)"
                   /\ (~hist.moved /\ hist.drawn = Some(SizeOf(bounds)))
                          => (ret'.value = "Geometry (cached)" /\ cache' = cache)
      ]_vars

\* A draw has reused the geometry of the previous draw.
C7_Witness ==
    /\ pc = "built"
    /\ ret = [call |-> "draw", value |-> "Geometry (cached)"]
    /\ IsSome(cache)
    /\ hist = [drawn |-> Some(Unwrap(cache).bounds), moved |-> FALSE]

\* C8: no call on a built Chart changes its bounds, its total distances, its
\* series or its custom labels.
C8_ChartDataUnchanged == [][IsSome(chart) => chart' = chart]_vars

\* mouse_interaction has returned on a Chart with series and custom labels,
\* after a draw that filled the cache.
C8_Witness ==
    /\ pc = "built"
    /\ ret.call = "mouse_interaction"
    /\ IsSome(cache)
    /\ AnyNonEmpty(C.data)
    /\ C.custom_y_labels # <<>>

-----------------------------------------------------------------------------
(* Properties of the selection drawn in a frame *)

\* The frame that fills the cache.
Frame == Unwrap(cache).geometry

\* The cursor is available and over the canvas.
CursorOnCanvas(g) ==
    /\ g.cursor # None
    /\ g.bounds.x <= g.cursor[1][1] /\ g.cursor[1][1] <= g.bounds.x + g.bounds.width
    /\ g.bounds.y <= g.cursor[1][2] /\ g.cursor[1][2] <= g.bounds.y + g.bounds.height

\* The cursor relative to the margined area.
FrameCursor(g) ==
    <<g.cursor[1][1] - g.bounds.x - Padding - Margin,
      g.cursor[1][2] - g.bounds.y - Padding - Margin>>

FramePoints(g) ==
    Points(xKind, C, <<g.bounds.width - 2 * (Padding + Margin),
                       g.bounds.height - 2 * (Padding + Margin)>>)

\* <<series, index>> of every datum, and of every segment by its first datum
PointIds == UNION {{<<k, i>> : i \in 1..Len(C.data[k])} : k \in DOMAIN C.data}

SegmentIds == UNION {{<<k, i>> : i \in 1..(Len(C.data[k]) - 1)} : k \in DOMAIN C.data}

PointDistance2(g, p) == Distance2(FrameCursor(g), FramePoints(g)[p[1]][p[2]][1])

SegmentDistance2(g, p) ==
    PointToIntervalDistance2(FrameCursor(g), FramePoints(g)[p[1]][p[2]][1],
                             FramePoints(g)[p[1]][p[2] + 1][1])

PointsWithin(g) ==
    {p \in PointIds : RatLeq(PointDistance2(g, p), <<PointThreshold * PointThreshold, 1>>)}

SegmentsWithin(g) ==
    {p \in SegmentIds : RatLeq(SegmentDistance2(g, p), <<LineThreshold * LineThreshold, 1>>)}

\* C9: in the frame of a redraw no point is selected if the cursor is absent
\* or outside the canvas or no projected datum is within 14 px of the cursor;
\* otherwise the selected point is within 14 px of the cursor and no datum of
\* any series is strictly nearer to the cursor.
C9_PointHit ==
    IsSome(cache) =>
        IF ~CursorOnCanvas(Frame) THEN Frame.selected_point = None
        ELSE IF PointsWithin(Frame) = {} THEN Frame.selected_point = None
        ELSE /\ IsSome(Frame.selected_point)
             /\ Unwrap(Frame.selected_point) \in PointsWithin(Frame)
             /\ \A p \in PointIds :
                   ~RatLess(PointDistance2(Frame, p),
                            PointDistance2(Frame, Unwrap(Frame.selected_point)))

\* The selected point is exactly 14 px from the cursor, or it is the nearer of
\* two points of different series within 14 px.
C9_Witness ==
    /\ IsSome(cache)
    /\ IsSome(Frame.selected_point)
    /\ \/ PointDistance2(Frame, Unwrap(Frame.selected_point))
             = <<PointThreshold * PointThreshold, 1>>
       \/ \E p \in PointsWithin(Frame) :
             /\ p[1] # Unwrap(Frame.selected_point)[1]
             /\ RatLess(PointDistance2(Frame, Unwrap(Frame.selected_point)),
                        PointDistance2(Frame, p))

\* C10: in the frame of a redraw the selected series is the one of the selected
\* point if there is one; otherwise, with a cursor on the canvas, a series with
\* a segment within 6 px of the cursor than which no segment of any series is
\* strictly nearer; otherwise none.
C10_SeriesHit ==
    IsSome(cache) =>
        IF IsSome(Frame.selected_point)
        THEN Frame.selected_plot = Some(Unwrap(Frame.selected_point)[1])
        ELSE IF ~CursorOnCanvas(Frame) THEN Frame.selected_plot = None
        ELSE IF SegmentsWithin(Frame) = {} THEN Frame.selected_plot = None
        ELSE /\ IsSome(Frame.selected_plot)
             /\ \E s \in SegmentsWithin(Frame) :
                   /\ s[1] = Unwrap(Frame.selected_plot)
                   /\ \A t \in SegmentIds :
                         ~RatLess(SegmentDistance2(Frame, t), SegmentDistance2(Frame, s))

\* A point is selected, so is its series, and a segment of another series is
\* within 6 px of the cursor and nearer to it than the selected point.
C10_Witness ==
    /\ IsSome(cache)
    /\ IsSome(Frame.selected_point)
    /\ Frame.selected_plot = Some(Unwrap(Frame.selected_point)[1])
    /\ \E s \in SegmentsWithin(Frame) :
          /\ s[1] # Unwrap(Frame.selected_point)[1]
          /\ RatLess(SegmentDistance2(Frame, s),
                     PointDistance2(Frame, Unwrap(Frame.selected_point)))

-----------------------------------------------------------------------------
(* Determinism of the hit-test *)

\* C11: hit-testing is deterministic: a second redraw of the same Chart with
\* the canvas size and the cursor of the frame selects the point and the series
\* of the frame, in whatever order it iterates the series map, also when two
\* points or two segments of different series are equally near to the cursor.
C11_HitTestDeterministic ==
    IsSome(cache) =>
        \A o \in ChartOrders :
            /\ Geometry(xKind, C, Frame.bounds, Frame.cursor, o).selected_point
                  = Frame.selected_point
            /\ Geometry(xKind, C, Frame.bounds, Frame.cursor, o).selected_plot
                  = Frame.selected_plot

-----------------------------------------------------------------------------
(* Series with equal style *)

\* C12: a series added to the builder remains a series of its own, also when a
\* series with an identical style configuration was added before: every
\* add_data adds one series to those the builder holds, so all of them are in
\* the Chart built and are separate selection targets.
C12_AddDataAddsSeries ==
    [][ \A ps \in PlotSettingsChoices, edges \in SeriesChoices :
            AddData(ps, edges)
                => Cardinality(DOMAIN builder'[1].data) = Cardinality(DOMAIN B.data) + 1
      ]_vars

-----------------------------------------------------------------------------
(* Widths and radii of the series drawn *)

\* C13: in the frame of a redraw exactly the point chosen by the point
\* hit-test, if any, is drawn with point_size3; every other point is drawn with
\* point_size2 if its series is the selected series and with point_size1
\* otherwise; the segments of the selected series are drawn with line_size2 and
\* those of every other series with line_size1.
C13_DrawSizes ==
    IsSome(cache) =>
        \A k \in DOMAIN C.data :
            /\ Frame.series[k].line_size
                  = (IF Frame.selected_plot = Some(k) THEN "line_size2" ELSE "line_size1")
            /\ \A i \in 1..Len(C.data[k]) :
                  Frame.series[k].point_sizes[i]
                     = (IF Frame.selected_point = Some(<<k, i>>) THEN "point_size3"
                        ELSE IF Frame.selected_plot = Some(k) THEN "point_size2"
                        ELSE "point_size1")

-----------------------------------------------------------------------------
(* mouse_interaction against the hit-test of draw *)

\* C14: mouse_interaction returns the pointer interaction exactly when the
\* hit-test of draw, for the same Chart, bounds and cursor, selects a point or a
\* series, also for a series that consists of a single point.
C14_InteractionAgreesWithDraw ==
    [][ (pc' = "built" /\ ret'.call = "mouse_interaction") =>
          \A bounds \in BoundsChoices, cursor \in CursorChoices :
            MouseInteraction(bounds, cursor)
                => \A o \in ChartOrders :
                      (ret'.value = "Interaction::Pointer")
                          <=> IsSome(Geometry(xKind, C, bounds, cursor, o).selected_plot)
      ]_vars

-----------------------------------------------------------------------------
(* Regular axis labels *)

\* The margined area of the frame.
FrameArea(g) == MarginedArea(SizeOf(g.bounds))

\* labels is min, then between, then max.
IsMinBetweenMax(labels, min_value, between, max_value) ==
    /\ Len(labels) = Len(between) + 2
    /\ labels[1] = min_value
    /\ \A i \in 1..Len(between) : labels[i + 1] = between[i]
    /\ labels[Len(labels)] = max_value

\* C15: in the frame of a redraw the regular labels of each axis are the
\* minimum of the axis, then the values that get_values_in_between returns for
\* the minimal and the optimal label distance mapped to axis units, in their
\* order, then the maximum; the minimum and the maximum are labelled also when
\* get_values_in_between returns nothing.
C15_LabelsAreMinBetweenMax ==
    IsSome(cache) =>
        /\ IsMinBetweenMax(Frame.y_labels, C.min_y_value,
              GetValuesInBetween(YKind, C.min_y_value, C.max_y_value,
                  MappedDistance(<<MinYLabelDistance, 1>>,
                                 FrameArea(Frame).height, C.total_y_distance),
                  MappedDistance(OptimalLabelDistance(FrameArea(Frame).height,
                                                      MinYLabelDistance),
                                 FrameArea(Frame).height, C.total_y_distance)),
              C.max_y_value)
        /\ IsMinBetweenMax(Frame.x_labels, C.min_x_value,
              GetValuesInBetween(xKind, C.min_x_value, C.max_x_value,
                  MappedDistance(<<MinXLabelDistance, 1>>,
                                 FrameArea(Frame).width, C.total_x_distance),
                  MappedDistance(OptimalLabelDistance(FrameArea(Frame).width,
                                                      MinXLabelDistance),
                                 FrameArea(Frame).width, C.total_x_distance)),
              C.max_x_value)

\* A frame with values between the bounds of the y axis and none between the
\* bounds of the x axis, which has its minimum and its maximum labelled.
C15_Witness ==
    /\ IsSome(cache)
    /\ Len(Frame.y_labels) > 2
    /\ Frame.x_labels = <<C.min_x_value, C.max_x_value>>
    /\ C.min_x_value < C.max_x_value

-----------------------------------------------------------------------------
(* Properties of the AxisValue methods *)

\* get_values_in_between has returned for self <= other and
\* 0 < min_distance <= optimal_distance.
BetweenReturned ==
    /\ pc = "returned"
    /\ ret.call = "get_values_in_between"
    /\ ret.value.args.self <= ret.value.args.other
    /\ RatLeq(ret.value.args.min_distance, ret.value.args.optimal_distance)

\* C16: for self <= other and 0 < min_distance <= optimal_distance no value v
\* that get_values_in_between returns has distance_to(v, other) < min_distance.
C16_BetweenKeepsMinDistance ==
    BetweenReturned =>
        \A n \in 1..Len(ret.value.result) :
            ~RatLess(<<DistanceTo(xKind, ret.value.result[n], ret.value.args.other), 1>>,
                     ret.value.args.min_distance)

\* C17: for self <= other and 0 < min_distance <= optimal_distance the
\* sequence that get_values_in_between returns is strictly increasing, for an
\* integer axis also when optimal_distance is less than 1.
C17_BetweenStrictlyIncreasing ==
    BetweenReturned =>
        \A n \in 1..(Len(ret.value.result) - 1) :
            ret.value.result[n] < ret.value.result[n + 1]

-----------------------------------------------------------------------------
(* Custom labels *)

\* C18: in the frame of a redraw a custom label of the x axis or of the y axis
\* is drawn if and only if its value lies strictly between the minimum and the
\* maximum of its axis.
C18_CustomLabelsDrawn ==
    IsSome(cache) =>
        /\ \A i \in 1..Len(C.custom_y_labels) :
              i \in DOMAIN Frame.custom_y_labels
                 <=> (C.min_y_value < C.custom_y_labels[i][1]
                        /\ C.custom_y_labels[i][1] < C.max_y_value)
        /\ \A i \in 1..Len(C.custom_x_labels) :
              i \in DOMAIN Frame.custom_x_labels
                 <=> (C.min_x_value < C.custom_x_labels[i][1]
                        /\ C.custom_x_labels[i][1] < C.max_x_value)

-----------------------------------------------------------------------------
(* Properties of the projection *)

\* C19: for an axis with min < max, whatever the margined width or height, a
\* datum equal to the axis minimum (distance 0) is projected to the pixel
\* coordinate 0 exactly, and a datum equal to the axis maximum (distance = total
\* distance) to the full margined width or height exactly.
C19_ProjectEndPoints ==
    (/\ pc = "returned" /\ ret.call = "map_inverval_value"
     /\ ret.value.args.from[1] = F32Of(0) /\ ret.value.args.to[1] = F32Of(0)) =>
        /\ ret.value.args.value = F32Of(0) => ret.value.result = F32Of(0)
        /\ ret.value.args.value = ret.value.args.from[2]
              => ret.value.result = ret.value.args.to[2]

-----------------------------------------------------------------------------
(* Properties of distance_to *)

\* C20: for every axis type, distance_to called with self > other fails on its
\* assertion and returns no value.
C20_DistanceToChecksOrder ==
    (ret.call = "distance_to" /\ ret.value.args.self > ret.value.args.other)
        => (pc = "panicked" /\ ret.value.result = AssertLeFailed)

-----------------------------------------------------------------------------
(* Properties of add *)

\* C21: for an integer value v and a whole delta d >= 0, add returns v + d if
\* v + d is a value of the type and None if it is not.
C21_AddIsChecked ==
    (pc = "returned" /\ ret.call = "add") =>
        ret.value.result
           = (IF ret.value.args.self + ret.value.args.value <= IntMax(xKind)
              THEN Some(ret.value.args.self + ret.value.args.value)
              ELSE None)

\* C22: for intervals [a1, b1] and [a2, b2] with a1 # b1, map_inverval_value
\* maps a1 to a2 and b1 to b2, and it preserves the order: the result for a
\* value is <= the result for every greater value of [a1, b1].
C22_MapIsAffine ==
    (pc = "returned" /\ ret.call = "map_inverval_value") =>
        LET a == ret.value.args
        IN  /\ a.value = a.from[1] => ret.value.result = a.to[1]
            /\ a.value = a.from[2] => ret.value.result = a.to[2]
            /\ \A d \in 0..MaxTotal :
                  (F32Leq(a.value, F32Of(d)) /\ F32Leq(F32Of(d), a.from[2]))
                      => F32Leq(ret.value.result,
                                MapIntervalValueF32(F32Of(d), a.from, a.to))

-----------------------------------------------------------------------------
(* Properties of point_to_interval_distance *)

\* The exact value of an f32 of the model in units of 2^-27.
Exact(v) == v[1] * Pow2(v[2] + 27)

\* The exact dot product of point - path_point1 and path_point2 - path_point1,
\* the exact squared length of the segment and the exact cross product, for a
\* segment from (0, 0) to a point of whole coordinates.
ExactDot(a) ==
    Exact(a.point[1]) * (Exact(a.path_point2[1]) \div Pow2(27))
       + Exact(a.point[2]) * (Exact(a.path_point2[2]) \div Pow2(27))

ExactLenSq(a) ==
    Exact(a.path_point2[1]) * (Exact(a.path_point2[1]) \div Pow2(27))
       + Exact(a.path_point2[2]) * (Exact(a.path_point2[2]) \div Pow2(27))

ExactCross(a) ==
    Exact(a.point[1]) * (Exact(a.path_point2[2]) \div Pow2(27))
       - Exact(a.point[2]) * (Exact(a.path_point2[1]) \div Pow2(27))

\* The point lies on the segment, end points included.
OnSegment(a) ==
    IF a.path_point1 = a.path_point2 THEN a.point = a.path_point1
    ELSE ExactCross(a) = 0 /\ 0 <= ExactDot(a) /\ ExactDot(a) <= ExactLenSq(a)

\* C23: point_to_interval_distance returns 0 if and only if the point lies on
\* the segment (for a segment of length zero: equals its end point), and for a
\* point whose perpendicular foot is outside the segment it returns the
\* distance to the nearer end point.
C23_DistanceToSegment ==
    (pc = "returned" /\ ret.call = "point_to_interval_distance") =>
        LET a == ret.value.args
            r == ret.value.result
        IN  /\ (r.dx = F32Of(0) /\ r.dy = F32Of(0)) <=> OnSegment(a)
            /\ (a.path_point1 = a.path_point2 \/ ExactDot(a) < 0)
                  => r = [dx |-> F32Sub(a.point[1], a.path_point1[1]),
                          dy |-> F32Sub(a.point[2], a.path_point1[2])]
            /\ (a.path_point1 # a.path_point2 /\ ExactDot(a) > ExactLenSq(a))
                  => r = [dx |-> F32Sub(a.point[1], a.path_point2[1]),
                          dy |-> F32Sub(a.point[2], a.path_point2[2])]

-----------------------------------------------------------------------------
(* Properties of the cached frame *)

\* The selection a frame shows: the selected point, the selected series and
\* the sizes every series is drawn with.
SelectionShown(g) ==
    [selected_point |-> g.selected_point,
     selected_plot  |-> g.selected_plot,
     series         |-> g.series]

\* C24: the frame a draw returns shows the selection that a render without a
\* cache would show for the bounds and the cursor of this draw (in some order
\* of the series), whatever events and draws came before.
C24_DrawShowsCurrentSelection ==
    [][ (pc' = "built" /\ ret'.call = "draw") =>
          \A bounds \in BoundsChoices, cursor \in CursorChoices, o \in ChartOrders :
            Draw(bounds, cursor, o)
                => \E fresh \in ChartOrders :
                      SelectionShown(Unwrap(cache').geometry)
                          = SelectionShown(Geometry(xKind, C, bounds, cursor, fresh))
      ]_vars

-----------------------------------------------------------------------------
(* Properties of the projection of data inside the bounds *)

\* C25: with bounds computed by calculate_min_max_values from the series the
\* chart is built with, every datum has a distance from the minimum between 0
\* and the total distance, and Chart::points projects it into [0, width] (and
\* likewise [0, height]) of the margined area: map_inverval_value, called as
\* points calls it with such a distance, returns a coordinate between 0 and
\* the extent.
C25_ProjectedInsideArea ==
    (/\ pc = "returned"
     /\ ret.call = "map_inverval_value"
     /\ ret.value.args.from[1] = F32Of(0)
     /\ ret.value.args.to[1] = F32Of(0)
     /\ F32Leq(F32Of(0), ret.value.args.value)
     /\ F32Leq(ret.value.args.value, ret.value.args.from[2]))
        => /\ F32Leq(F32Of(0), ret.value.result)
           /\ F32Leq(ret.value.result, ret.value.args.to[2])

-----------------------------------------------------------------------------
(* Properties of the label loop *)

\* C26: get_values_in_between, called with self <= other and the distances a
\* draw computes (also when the minimal label distance is greater than the
\* extent of the margined area, and when a value generated is the greatest of
\* the integer type), ends by its break and returns a finite sequence: it
\* never pushes values until its counter overflows.
C26_LabelLoopReturns == pc # "panicked"

-----------------------------------------------------------------------------
(* Properties of the spacing of the labels *)

\* Consecutive labels are at least the minimal label distance, mapped to axis
\* units (min_label_distance * total / extent), apart.
LabelsSpaced(labels, extent, min_label_distance, total) ==
    \A i \in 1..(Len(labels) - 1) :
        (labels[i + 1] - labels[i]) * extent >= min_label_distance * total

\* C27: in the frame of a redraw, on an axis with min < max and a minimal label
\* distance not greater than the extent of the margined area, any two
\* consecutive regular labels (the minimum, the values in between, the maximum)
\* are at least the minimal label distance in axis units apart, so that no
\* value is labelled twice.
C27_LabelsKeepMinDistance ==
    IsSome(cache) =>
        /\ (C.min_y_value < C.max_y_value /\ MinYLabelDistance <= FrameArea(Frame).height)
              => LabelsSpaced(Frame.y_labels, FrameArea(Frame).height,
                              MinYLabelDistance, C.total_y_distance)
        /\ (C.min_x_value < C.max_x_value /\ MinXLabelDistance <= FrameArea(Frame).width)
              => LabelsSpaced(Frame.x_labels, FrameArea(Frame).width,
                              MinXLabelDistance, C.total_x_distance)

====
